---- MODULE Spec2Model ----
(***************************************************************************)
(* Model of src/visuals.js: the "message" listeners of the visuals frame,  *)
(* the router routeVisual (declared twice in the file), the extractors and *)
(* the renderers that write the #visual-root element.                      *)
(*                                                                         *)
(* JavaScript values are records of one shape, so that any two of them can *)
(* be compared:                                                            *)
(*   t  the kind: "undefined", "null", "boolean", "number", "nan",         *)
(*      "string", "array", "object", or "expr" (a number the model keeps   *)
(*      symbolic: the result of Math.cos, Math.pow and the like)           *)
(*   n  the value of a number (1/0 for a boolean)                          *)
(*   s  the characters of a string (the operation of an "expr")            *)
(*   k  the keys of an object, in insertion order                          *)
(*   a  the elements of an array / the values of an object, by position    *)
(***************************************************************************)
EXTENDS Integers, Sequences, FiniteSets, TLC

V(t, n, s, k, a) == [t |-> t, n |-> n, s |-> s, k |-> k, a |-> a]

Undef == V("undefined", 0, "", <<>>, <<>>)
Null == V("null", 0, "", <<>>, <<>>)
NaN == V("nan", 0, "", <<>>, <<>>)
Num(n) == V("number", n, "", <<>>, <<>>)
Str(s) == V("string", 0, s, <<>>, <<>>)
Bool(b) == V("boolean", IF b THEN 1 ELSE 0, "", <<>>, <<>>)
Arr(a) == V("array", 0, "", <<>>, a)
Obj(k, a) == V("object", 0, "", k, a)
\* A number the model does not evaluate: op applied to the operands a.
Expr(op, a) == V("expr", 0, op, <<>>, a)

----------------------------------------------------------------------------
(* The language's own operations, as the code uses them. *)

\* typeof v === "number" (NaN is a number too)
IsNumber(v) == v.t \in {"number", "nan", "expr"}

\* typeof v === "string"
IsString(v) == v.t = "string"

\* Array.isArray(v)
IsArray(v) == v.t = "array"

\* if (v), !v, a && b
Truthy(v) ==
  CASE v.t \in {"undefined", "null", "nan"} -> FALSE
    [] v.t \in {"boolean", "number"} -> v.n # 0
    [] v.t = "string" -> v.s # ""
    [] OTHER -> TRUE

\* v.length of an array
Length(v) == Len(v.a)

\* v[i] of an array, i counted from 0
At(v, i) == IF IsArray(v) /\ i + 1 \in 1..Len(v.a) THEN v.a[i + 1] ELSE Undef

\* v.key / v[key] of a value that is neither null nor undefined
Prop(v, key) ==
  IF v.t = "object" /\ \E i \in 1..Len(v.k) : v.k[i] = key
    THEN v.a[CHOOSE i \in 1..Len(v.k) : v.k[i] = key]
    ELSE Undef

\* reading a property of v throws a TypeError
PropThrows(v) == v.t \in {"undefined", "null"}

\* v?.key
OptProp(v, key) == IF PropThrows(v) THEN Undef ELSE Prop(v, key)

\* the decimal index keys of an array
IndexKey(i) == <<"0", "1", "2", "3", "4", "5", "6", "7", "8", "9">>[i + 1]

\* Object.keys(v), v neither null nor undefined
Keys(v) ==
  CASE v.t = "object" -> v.k
    [] v.t = "array" -> [i \in 1..Len(v.a) |-> IndexKey(i - 1)]
    [] OTHER -> <<>>

\* Object.values(v) / the values of Object.entries(v)
Values(v) == IF v.t \in {"object", "array"} THEN v.a ELSE <<>>

\* arr.every(v => typeof v === "number")
AllNumbers(seq) == \A i \in 1..Len(seq) : IsNumber(seq[i])

\* arr.every(x => typeof x === "string")
AllStrings(seq) == \A i \in 1..Len(seq) : IsString(seq[i])

\* arr.every(row => Array.isArray(row))
AllArrays(seq) == \A i \in 1..Len(seq) : IsArray(seq[i])

\* arr.map(c => c[key])
MapProp(seq, key) == [i \in 1..Len(seq) |-> Prop(seq[i], key)]

\* the strings of a list of keys, as values
MapStr(seq) == [i \in 1..Len(seq) |-> Str(seq[i])]

\* a numeric string of the model's alphabet, read as a number
StringToNumber(s) ==
  CASE s = "" -> Num(0)
    [] s = "5" -> Num(5)
    [] OTHER -> NaN

\* ToNumber, the coercion of the arithmetic operators
RECURSIVE ToNumber(_)
ToNumber(v) ==
  CASE v.t \in {"number", "nan", "expr"} -> v
    [] v.t = "null" -> Num(0)
    [] v.t = "boolean" -> Num(v.n)
    [] v.t = "string" -> StringToNumber(v.s)
    [] v.t = "array" /\ Len(v.a) = 0 -> Num(0)
    [] v.t = "array" /\ Len(v.a) = 1 ->
         IF v.a[1].t \in {"null", "undefined"} THEN Num(0)
         ELSE IF v.a[1].t \in {"number", "string", "array"} THEN ToNumber(v.a[1])
         ELSE NaN
    [] OTHER -> NaN

\* a * b
Mul(a, b) ==
  LET x == ToNumber(a)
      y == ToNumber(b)
  IN  CASE x.t = "nan" \/ y.t = "nan" -> NaN
        [] x.t = "number" /\ y.t = "number" -> Num(x.n * y.n)
        [] OTHER -> Expr("mul", <<x, y>>)

\* a + b on numbers (yi += ...; yi starts as the number 0)
Add(a, b) ==
  LET x == ToNumber(a)
      y == ToNumber(b)
  IN  CASE x.t = "nan" \/ y.t = "nan" -> NaN
        [] x.t = "number" /\ y.t = "number" -> Num(x.n + y.n)
        [] OTHER -> Expr("add", <<x, y>>)

RECURSIVE IntPow(_, _)
IntPow(b, e) == IF e = 0 THEN 1 ELSE b * IntPow(b, e - 1)

\* Math.pow(x, n) for an index n >= 0: 1 when n is 0, whatever x is
Pow(x, n) ==
  LET b == ToNumber(x)
  IN  CASE n = 0 -> Num(1)
        [] b.t = "nan" -> NaN
        [] b.t = "number" -> Num(IntPow(b.n, n))
        [] OTHER -> Expr("pow", <<b, Num(n)>>)

\* Math.cos(x): exact at 0, symbolic elsewhere
Cos(x) ==
  CASE x.t = "number" /\ x.n = 0 -> Num(1)
    [] x.t = "nan" -> NaN
    [] OTHER -> Expr("cos", <<x>>)

\* Math.sin(x): exact at 0, symbolic elsewhere
Sin(x) ==
  CASE x.t = "number" /\ x.n = 0 -> Num(0)
    [] x.t = "nan" -> NaN
    [] OTHER -> Expr("sin", <<x>>)

\* JSON.stringify(v, null, 2): the text, kept symbolic
Stringify(v) == V("string", 0, "json", <<>>, <<v>>)

----------------------------------------------------------------------------
(* HELPERS (src/visuals.js 730-779; the same text stands at 333-382, and   *)
(* the later declaration is the one bound at run time).                    *)

\* the ignore list of extractScalarMap
ScalarIgnore == {"topic", "samples", "phasor"}

\* The positions of data's entries that extractScalarMap keeps.
ScalarKept(data) ==
  {i \in 1..Len(Keys(data)) : Keys(data)[i] \notin ScalarIgnore /\ IsNumber(Values(data)[i])}

\* the subsequence of seq at the positions in keep, in order
RECURSIVE Filter(_, _, _)
Filter(seq, keep, i) ==
  IF i > Len(seq) THEN <<>>
  ELSE (IF i \in keep THEN <<seq[i]>> ELSE <<>>) \o Filter(seq, keep, i + 1)

extractScalarMap(data) ==
  Obj(Filter(Keys(data), ScalarKept(data), 1), Filter(Values(data), ScalarKept(data), 1))

isPlainObject(obj) == Truthy(obj) /\ obj.t = "object"

\* One block of extractTextBlocks for the entry (k, v), or none.
TextBlockOf(k, v) ==
  IF IsArray(v) /\ AllStrings(v.a)
    THEN <<Obj(<<"key", "value">>, <<Str(k), v>>)>>
  ELSE IF isPlainObject(v) /\ k # "solution"
    THEN <<Obj(<<"key", "value">>, <<Str(k), Stringify(v)>>)>>
  ELSE <<>>

RECURSIVE TextBlocksFrom(_, _)
TextBlocksFrom(data, i) ==
  IF i > Len(Keys(data)) THEN <<>>
  ELSE TextBlockOf(Keys(data)[i], Values(data)[i]) \o TextBlocksFrom(data, i + 1)

extractTextBlocks(data) == TextBlocksFrom(data, 1)

\* one <li> of formatText
ListItem(v) == Obj(<<"tag", "text">>, <<Str("li"), v>>)

formatText(value) ==
  IF IsArray(value)
    THEN Obj(<<"tag", "items">>, <<Str("ul"), Arr([i \in 1..Len(value.a) |-> ListItem(value.a[i])])>>)
    ELSE Obj(<<"tag", "text">>, <<Str("pre"), value>>)

\* v.toFixed(4) is kept symbolic: a string made from the number
formatNumber(v) == IF IsNumber(v) THEN V("string", 0, "toFixed4", <<>>, <<v>>) ELSE v

\* arr.map(formatNumber)
MapFormat(seq) == [i \in 1..Len(seq) |-> formatNumber(seq[i])]

\* a clear() that leaves the element as it is
clearKeeps(root) == root

\* document.getElementById("visual-root").innerHTML = ""
clear(root) == <<>>

showMessage(msg) == <<Obj(<<"tag", "text">>, <<Str("p"), Str(msg)>>)>>

NoDataMessage == "No data received from engine."

NoRuleMessage == "No visual rule matched for this output."

----------------------------------------------------------------------------
(* RENDERERS (src/visuals.js 643-724; the same text stands at 125-206).    *)
(* Each gives the content of #visual-root it leaves, or throws.            *)
(* Plotly.newPlot("visual-root", traces, layout) draws into the element:   *)
(* the element then holds that one plot.                                   *)

Done(root) == [root |-> root, thrown |-> FALSE]

\* a TypeError leaves the element as it was when the renderer was entered
Throw(root) == [root |-> root, thrown |-> TRUE]

newPlot(title, traces) ==
  <<Obj(<<"tag", "title", "traces">>, <<Str("plot"), Str(title), Arr(traces)>>)>>

renderScalarMap(root, map, title) ==
  Done(newPlot(title,
    <<Obj(<<"type", "x", "y", "text">>,
          <<Str("bar"), Arr(MapStr(Keys(map))), Arr(Values(map)),
            Arr(MapFormat(Values(map)))>>)>>))

\* `${labelPrefix} ${i + 1}`
IndexLabel(labelPrefix, i) == V("string", i, labelPrefix, <<>>, <<>>)

\* `${labelPrefix} Results`
ResultsTitle(labelPrefix) ==
  CASE labelPrefix = "Voltage" -> "Voltage Results"
    [] labelPrefix = "Current" -> "Current Results"
    [] labelPrefix = "Output" -> "Output Results"

renderIndexedArray(root, arr, labelPrefix) ==
  Done(newPlot(ResultsTitle(labelPrefix),
    <<Obj(<<"type", "x", "y", "text">>,
          <<Str("bar"), Arr([i \in 1..Length(arr) |-> IndexLabel(labelPrefix, i)]), arr,
            Arr(MapFormat(arr.a))>>)>>))

renderLinePlot(root, x, y, title) ==
  Done(newPlot(title, <<Obj(<<"type", "x", "y">>, <<Str("scatter"), x, y>>)>>))

\* phasor.angle * 180 / Math.PI, kept symbolic
AngleDeg(angle) ==
  IF ToNumber(angle).t = "nan" THEN NaN ELSE Expr("deg", <<ToNumber(angle)>>)

renderPhasor(root, phasor) ==
  Done(newPlot("Impedance Phasor Diagram",
    <<Obj(<<"type", "r", "theta">>,
          <<Str("scatterpolar"), Arr(<<Num(0), Prop(phasor, "magnitude")>>),
            Arr(<<Num(0), AngleDeg(Prop(phasor, "angle"))>>)>>)>>))

\* the <tr> of renderTable for one row: the cells row[h]
TableRow(headers, row) == Arr([j \in 1..Len(headers) |-> Prop(row, headers[j])])

renderTable(root, rows) ==
  IF PropThrows(At(rows, 0))
    THEN Throw(root)                    \* Object.keys(rows[0])
  ELSE LET headers == Keys(At(rows, 0))
       IN  IF Len(headers) > 0 /\ \E i \in 1..Length(rows) : PropThrows(rows.a[i])
             THEN Throw(root)           \* row[h]
           ELSE Done(<<Obj(<<"tag", "headers", "rows">>,
                  <<Str("table"), Arr(MapStr(headers)),
                    Arr([i \in 1..Length(rows) |-> TableRow(headers, rows.a[i])])>>)>>)

\* the <div> of renderTextBlocks for one block
Section(block) ==
  Obj(<<"tag", "h4", "body">>,
      <<Str("div"), Prop(block, "key"), formatText(Prop(block, "value"))>>)

\* root.appendChild(section) for every block
renderTextBlocks(root, blocks) == Done(root \o [i \in 1..Len(blocks) |-> Section(blocks[i])])

----------------------------------------------------------------------------
(* The extractors and renderers that only the first routeVisual uses       *)
(* (src/visuals.js 207-327 and 383-554).                                   *)

\* what an extractor gives when a TypeError is thrown inside it
TypeError == V("TypeError", 0, "", <<>>, <<>>)

\* title.replace(/_/g, " ") on the keys of the model
ReplaceUnderscores(title) ==
  CASE title = "y_fit" -> "y fit"
    [] OTHER -> title

\* the position of the first entry of data that is a non-empty array of arrays
MatrixAt(data) ==
  {i \in 1..Len(Keys(data)) :
     LET v == Values(data)[i]
     IN  IsArray(v) /\ Length(v) > 0 /\ IsArray(At(v, 0)) /\ AllArrays(v.a)}

Min(S) == CHOOSE m \in S : \A x \in S : m <= x

extractMatrix(data) ==
  IF MatrixAt(data) = {} THEN Null
  ELSE Obj(<<"key", "value">>,
           <<Str(Keys(data)[Min(MatrixAt(data))]), Values(data)[Min(MatrixAt(data))]>>)

MatrixRow(row) == Arr(MapFormat(row.a))

renderMatrix(root, title, matrix) ==
  Done(<<Obj(<<"tag", "text">>, <<Str("h4"), Str(ReplaceUnderscores(title.s))>>),
         Obj(<<"tag", "rows">>, <<Str("table"), Arr([i \in 1..Len(matrix.a) |-> MatrixRow(matrix.a[i])])>>)>>)

\* r => typeof r.real === "number" && typeof r.imag === "number"
IsRectangular(r) == IsNumber(Prop(r, "real")) /\ IsNumber(Prop(r, "imag"))

AllRectangular(seq) == \A i \in 1..Len(seq) : IsRectangular(seq[i])

\* roots.every(...) throws: r.real is read of a null or undefined element
\* that every reaches, one with no earlier element on which the test fails
RootsEveryThrows(seq) ==
  \E i \in 1..Len(seq) :
    PropThrows(seq[i]) /\ \A j \in 1..(i - 1) : ~PropThrows(seq[j]) /\ IsRectangular(seq[j])

extractComplex(data) ==
  LET roots == Prop(data, "roots")
  IN  IF IsArray(roots) /\ RootsEveryThrows(roots.a)
        THEN TypeError
      ELSE IF IsArray(roots) /\ AllRectangular(roots.a)
        THEN roots
      ELSE IF IsNumber(Prop(data, "real")) /\ IsNumber(Prop(data, "imag"))
        THEN Obj(<<"real", "imag">>, <<Prop(data, "real"), Prop(data, "imag")>>)
      ELSE IF IsNumber(Prop(data, "modulus")) /\ IsNumber(Prop(data, "argument"))
        THEN Obj(<<"real", "imag">>,
                 <<Mul(Prop(data, "modulus"), Cos(Prop(data, "argument"))),
                   Mul(Prop(data, "modulus"), Sin(Prop(data, "argument")))>>)
      ELSE Null

GetReal(c) == Prop(c, "real")

GetImag(c) == Prop(c, "imag")

renderComplexPlane(root, complexData) ==
  IF IsArray(complexData)
    THEN Done(newPlot("Complex Roots",
           <<Obj(<<"type", "x", "y", "text">>,
                 <<Str("scatter"), Arr(MapProp(complexData.a, "real")),
                   Arr(MapProp(complexData.a, "imag")),
                   Arr([i \in 1..Length(complexData) |-> IndexLabel("Root", i)])>>)>>))
    ELSE Done(newPlot("Argand Plane",
           <<Obj(<<"type", "x", "y", "text">>,
                 <<Str("scatter"), Arr(<<GetReal(complexData)>>),
                   Arr(<<GetImag(complexData)>>), Arr(<<Str("z")>>)>>)>>))

extractPolynomial(data) ==
  IF ~IsArray(Prop(data, "coefficients")) THEN Null
  ELSE IF ~AllNumbers(Prop(data, "coefficients").a) THEN Null
  ELSE Obj(<<"coefficients", "about">>,
           <<Prop(data, "coefficients"),
             IF IsNumber(Prop(data, "about")) THEN Prop(data, "about") ELSE Num(0)>>)

\* the sampling range of renderPolynomial
xmin == -5

xmax == 5

steps == 200

\* The curve of renderPolynomial: the coefficients evaluated about `about`
\* at steps + 1 points from xmin to xmax. The points are not integers; the
\* model keeps the two series as terms over what determines them.
renderPolynomial(root, poly) ==
  Done(newPlot("Function Approximation",
    <<Obj(<<"type", "x", "y">>,
          <<Str("scatter"),
            Expr("linspace", <<Num(xmin), Num(xmax), Num(steps)>>),
            Expr("polyval", <<Prop(poly, "coefficients"), Prop(poly, "about"),
                              Num(xmin), Num(xmax), Num(steps)>>)>>)>>))

\* it => typeof it.iteration === "number" && typeof it.value === "number"
IsPoint(it) == IsNumber(Prop(it, "iteration")) /\ IsNumber(Prop(it, "value"))

AllPoints(seq) == \A i \in 1..Len(seq) : IsPoint(seq[i])

\* iterations.every(...) throws: it.iteration is read of a null or undefined
\* element that every reaches
PointsEveryThrows(seq) ==
  \E i \in 1..Len(seq) :
    PropThrows(seq[i]) /\ \A j \in 1..(i - 1) : ~PropThrows(seq[j]) /\ IsPoint(seq[j])

extractConvergence(data) ==
  LET iterations == Prop(data, "iterations")
  IN  IF ~Truthy(iterations) THEN Null
      ELSE IF IsArray(iterations) /\ AllNumbers(iterations.a)
        THEN Arr([i \in 1..Length(iterations) |->
                    Obj(<<"iteration", "value">>, <<Num(i), iterations.a[i]>>)])
      ELSE IF IsArray(iterations) /\ PointsEveryThrows(iterations.a)
        THEN TypeError
      ELSE IF IsArray(iterations) /\ AllPoints(iterations.a)
        THEN iterations
      ELSE Null

renderConvergence(root, points) ==
  Done(newPlot("Iteration Convergence",
    <<Obj(<<"type", "x", "y">>,
          <<Str("scatter"), Arr(MapProp(points.a, "iteration")),
            Arr(MapProp(points.a, "value"))>>)>>))

extractODE(data) ==
  IF /\ IsArray(Prop(data, "t"))
     /\ IsArray(Prop(data, "y"))
     /\ Length(Prop(data, "t")) = Length(Prop(data, "y"))
     /\ AllNumbers(Prop(data, "t").a)
     /\ AllNumbers(Prop(data, "y").a)
    THEN Obj(<<"t", "y">>, <<Prop(data, "t"), Prop(data, "y")>>)
    ELSE Null

renderODE(root, ode) ==
  Done(newPlot("ODE Trajectory",
    <<Obj(<<"type", "x", "y">>, <<Str("scatter"), Prop(ode, "t"), Prop(ode, "y")>>)>>))

extractCurveFit(data) ==
  IF /\ IsArray(Prop(data, "x"))
     /\ IsArray(Prop(data, "y"))
     /\ IsArray(Prop(data, "y_fit"))
     /\ Length(Prop(data, "x")) = Length(Prop(data, "y"))
     /\ Length(Prop(data, "y")) = Length(Prop(data, "y_fit"))
    THEN Obj(<<"x", "y", "yFit">>, <<Prop(data, "x"), Prop(data, "y"), Prop(data, "y_fit")>>)
  ELSE IF /\ IsArray(Prop(data, "x"))
          /\ IsArray(Prop(data, "y"))
          /\ IsArray(Prop(data, "coefficients"))
    THEN Obj(<<"x", "y", "coefficients">>,
             <<Prop(data, "x"), Prop(data, "y"), Prop(data, "coefficients")>>)
  ELSE Null

\* yi after the coefficients from position n on (counted from 1) are added
RECURSIVE PolyAcc(_, _, _, _)
PolyAcc(coefficients, xi, n, yi) ==
  IF n > Len(coefficients) THEN yi
  ELSE PolyAcc(coefficients, xi, n + 1, Add(yi, Mul(coefficients[n], Pow(xi, n - 1))))

\* the fitted value at xi: let yi = 0; coefficients.forEach((c, n) => yi += c * xi^n)
PolyAt(coefficients, xi) == PolyAcc(coefficients, xi, 1, Num(0))

FitTrace(x, y) == Obj(<<"type", "name", "x", "y">>, <<Str("scatter"), Str("Fit"), x, y>>)

renderCurveFit(root, fit) ==
  Done(newPlot("Curve Fitting",
    <<Obj(<<"type", "name", "x", "y">>,
          <<Str("scatter"), Str("Data"), Prop(fit, "x"), Prop(fit, "y")>>)>>
    \o (IF Truthy(Prop(fit, "yFit"))
          THEN <<FitTrace(Prop(fit, "x"), Prop(fit, "yFit"))>> ELSE <<>>)
    \o (IF Truthy(Prop(fit, "coefficients"))
          THEN <<FitTrace(Prop(fit, "x"),
                   Arr([i \in 1..Length(Prop(fit, "x")) |->
                          PolyAt(Prop(fit, "coefficients").a, Prop(fit, "x").a[i])]))>>
          ELSE <<>>)))

----------------------------------------------------------------------------
(* ROUTER. What one call of routeVisual does: the content it leaves in     *)
(* #visual-root, whether it threw, the renderer (or showMessage) it called *)
(* and the data it handed over; routed tells a run of routeVisual from a   *)
(* listener that returned before calling it.                               *)

Called(res, name, args) ==
  [root |-> res.root, thrown |-> res.thrown, calls |-> <<name>>, args |-> args,
   routed |-> TRUE]

\* an extractor threw: routeVisual ends after clear(), with nothing rendered
Aborted(root) ==
  [root |-> root, thrown |-> TRUE, calls |-> <<>>, args |-> Undef, routed |-> TRUE]

\* data.samples?.x && data.samples?.y
SamplesMatch(data) ==
  /\ Truthy(OptProp(Prop(data, "samples"), "x"))
  /\ Truthy(OptProp(Prop(data, "samples"), "y"))

\* data.phasor?.magnitude !== undefined && data.phasor?.angle !== undefined
PhasorMatch(data) ==
  /\ OptProp(Prop(data, "phasor"), "magnitude") # Undef
  /\ OptProp(Prop(data, "phasor"), "angle") # Undef

\* CLASS E and the fallback, the end of both definitions
RouteText(root, data) ==
  IF Len(extractTextBlocks(data)) > 0
    THEN Called(renderTextBlocks(root, extractTextBlocks(data)), "renderTextBlocks",
                Arr(extractTextBlocks(data)))
    ELSE Called(Done(showMessage(NoRuleMessage)), "showMessage", Str(NoRuleMessage))

\* the first declaration, src/visuals.js 23-119
routeVisual1(root0, data) ==
  LET root == clear(root0)
      samples == Prop(data, "samples")
  IN  IF SamplesMatch(data)
        THEN Called(renderLinePlot(root, Prop(samples, "x"), Prop(samples, "y"), "Waveform"),
                    "renderLinePlot", Arr(<<Prop(samples, "x"), Prop(samples, "y")>>))
      ELSE IF PhasorMatch(data)
        THEN Called(renderPhasor(root, Prop(data, "phasor")), "renderPhasor",
                    Prop(data, "phasor"))
      ELSE IF isPlainObject(Prop(data, "solution"))
        THEN Called(renderScalarMap(root, Prop(data, "solution"), "Solution"),
                    "renderScalarMap", Prop(data, "solution"))
      ELSE IF Len(Keys(extractScalarMap(data))) > 0
        THEN Called(renderScalarMap(root, extractScalarMap(data), "Parameters"),
                    "renderScalarMap", extractScalarMap(data))
      ELSE IF IsArray(Prop(data, "voltages"))
        THEN Called(renderIndexedArray(root, Prop(data, "voltages"), "Voltage"),
                    "renderIndexedArray", Prop(data, "voltages"))
      ELSE IF IsArray(Prop(data, "currents"))
        THEN Called(renderIndexedArray(root, Prop(data, "currents"), "Current"),
                    "renderIndexedArray", Prop(data, "currents"))
      ELSE IF IsArray(Prop(data, "outputs"))
        THEN Called(renderIndexedArray(root, Prop(data, "outputs"), "Output"),
                    "renderIndexedArray", Prop(data, "outputs"))
      ELSE IF IsArray(Prop(data, "table"))
        THEN Called(renderTable(root, Prop(data, "table")), "renderTable",
                    Prop(data, "table"))
      ELSE IF Truthy(extractMatrix(data))
        THEN Called(renderMatrix(root, Prop(extractMatrix(data), "key"),
                                 Prop(extractMatrix(data), "value")),
                    "renderMatrix", extractMatrix(data))
      ELSE IF extractComplex(data) = TypeError
        THEN Aborted(root)
      ELSE IF Truthy(extractComplex(data))
        THEN Called(renderComplexPlane(root, extractComplex(data)), "renderComplexPlane",
                    extractComplex(data))
      ELSE IF Truthy(extractPolynomial(data))
        THEN Called(renderPolynomial(root, extractPolynomial(data)), "renderPolynomial",
                    extractPolynomial(data))
      ELSE IF extractConvergence(data) = TypeError
        THEN Aborted(root)
      ELSE IF Truthy(extractConvergence(data))
        THEN Called(renderConvergence(root, extractConvergence(data)), "renderConvergence",
                    extractConvergence(data))
      ELSE IF Truthy(extractODE(data))
        THEN Called(renderODE(root, extractODE(data)), "renderODE", extractODE(data))
      ELSE IF Truthy(extractCurveFit(data))
        THEN Called(renderCurveFit(root, extractCurveFit(data)), "renderCurveFit",
                    extractCurveFit(data))
      ELSE RouteText(root, data)

\* routeVisual with the scalar-parameter rule tried before the phasor rule
routeVisual2ScalarFirst(root0, data) ==
  LET root == clear(root0)
      samples == Prop(data, "samples")
  IN  IF SamplesMatch(data)
        THEN Called(renderLinePlot(root, Prop(samples, "x"), Prop(samples, "y"), "Waveform"),
                    "renderLinePlot", Arr(<<Prop(samples, "x"), Prop(samples, "y")>>))
      ELSE IF Len(Keys(extractScalarMap(data))) > 0
        THEN Called(renderScalarMap(root, extractScalarMap(data), "Parameters"),
                    "renderScalarMap", extractScalarMap(data))
      ELSE IF PhasorMatch(data)
        THEN Called(renderPhasor(root, Prop(data, "phasor")), "renderPhasor",
                    Prop(data, "phasor"))
      ELSE IF isPlainObject(Prop(data, "solution"))
        THEN Called(renderScalarMap(root, Prop(data, "solution"), "Solution"),
                    "renderScalarMap", Prop(data, "solution"))
      ELSE IF IsArray(Prop(data, "voltages"))
        THEN Called(renderIndexedArray(root, Prop(data, "voltages"), "Voltage"),
                    "renderIndexedArray", Prop(data, "voltages"))
      ELSE IF IsArray(Prop(data, "currents"))
        THEN Called(renderIndexedArray(root, Prop(data, "currents"), "Current"),
                    "renderIndexedArray", Prop(data, "currents"))
      ELSE IF IsArray(Prop(data, "outputs"))
        THEN Called(renderIndexedArray(root, Prop(data, "outputs"), "Output"),
                    "renderIndexedArray", Prop(data, "outputs"))
      ELSE IF IsArray(Prop(data, "table"))
        THEN Called(renderTable(root, Prop(data, "table")), "renderTable",
                    Prop(data, "table"))
      ELSE RouteText(root, data)

\* the second declaration, src/visuals.js 579-637
routeVisual2(root0, data) ==
  LET root == clear(root0)
      samples == Prop(data, "samples")
  IN  IF SamplesMatch(data)
        THEN Called(renderLinePlot(root, Prop(samples, "x"), Prop(samples, "y"), "Waveform"),
                    "renderLinePlot", Arr(<<Prop(samples, "x"), Prop(samples, "y")>>))
      ELSE IF PhasorMatch(data)
        THEN Called(renderPhasor(root, Prop(data, "phasor")), "renderPhasor",
                    Prop(data, "phasor"))
      ELSE IF isPlainObject(Prop(data, "solution"))
        THEN Called(renderScalarMap(root, Prop(data, "solution"), "Solution"),
                    "renderScalarMap", Prop(data, "solution"))
      ELSE IF Len(Keys(extractScalarMap(data))) > 0
        THEN Called(renderScalarMap(root, extractScalarMap(data), "Parameters"),
                    "renderScalarMap", extractScalarMap(data))
      ELSE IF IsArray(Prop(data, "voltages"))
        THEN Called(renderIndexedArray(root, Prop(data, "voltages"), "Voltage"),
                    "renderIndexedArray", Prop(data, "voltages"))
      ELSE IF IsArray(Prop(data, "currents"))
        THEN Called(renderIndexedArray(root, Prop(data, "currents"), "Current"),
                    "renderIndexedArray", Prop(data, "currents"))
      ELSE IF IsArray(Prop(data, "outputs"))
        THEN Called(renderIndexedArray(root, Prop(data, "outputs"), "Output"),
                    "renderIndexedArray", Prop(data, "outputs"))
      ELSE IF IsArray(Prop(data, "table"))
        THEN Called(renderTable(root, Prop(data, "table")), "renderTable",
                    Prop(data, "table"))
      ELSE RouteText(root, data)

\* The name routeVisual at run time. The file is one classic script and
\* declares function routeVisual twice at its top level: declarations are
\* hoisted and the later one replaces the earlier, so both listeners call
\* the second.
routeVisual(root0, data) == routeVisual2(root0, data)

----------------------------------------------------------------------------
(* The "message" listeners. *)

EngineResult == "ENGINE_RESULT"

\* the listener returned without touching the element
Ignored(root) ==
  [root |-> root, thrown |-> FALSE, calls |-> <<>>, args |-> Undef, routed |-> FALSE]

\* the listener called showMessage("No data received from engine.") itself
NoData ==
  [root |-> showMessage(NoDataMessage), thrown |-> FALSE, calls |-> <<"showMessage">>,
   args |-> Str(NoDataMessage), routed |-> FALSE]

\* the listener registered first, src/visuals.js 6-17; msg is event.data
listenerFirst(root, msg) ==
  IF ~Truthy(msg) \/ Prop(msg, "type") # Str(EngineResult)
    THEN Ignored(root)
  ELSE IF ~Truthy(Prop(msg, "payload")) \/ ~Truthy(Prop(Prop(msg, "payload"), "data"))
    THEN NoData
  ELSE routeVisual(root, Prop(Prop(msg, "payload"), "data"))

\* a listener that does not look at the message type
listenerNoTypeCheck(root, msg) ==
  IF ~Truthy(msg)
    THEN Ignored(root)
  ELSE IF ~Truthy(Prop(msg, "payload")) \/ ~Truthy(Prop(Prop(msg, "payload"), "data"))
    THEN NoData
  ELSE routeVisual(root, Prop(Prop(msg, "payload"), "data"))

\* the listener registered second, src/visuals.js 562-573
listenerSecond(root, msg) ==
  IF ~Truthy(msg) \/ Prop(msg, "type") # Str(EngineResult)
    THEN Ignored(root)
  ELSE IF ~Truthy(Prop(msg, "payload")) \/ ~Truthy(Prop(Prop(msg, "payload"), "data"))
    THEN NoData
  ELSE routeVisual(root, Prop(Prop(msg, "payload"), "data"))

----------------------------------------------------------------------------
(* The inputs: payloads are records built from a catalogue of entries, in  *)
(* every order of their keys.                                              *)

\* the most keys a payload of the router runs holds
MaxKeys == 3

\* the most keys a payload of the message runs holds
MaxMsgKeys == 2

NumArr(ns) == Arr([i \in 1..Len(ns) |-> Num(ns[i])])

Rec1(k1, v1) == Obj(<<k1>>, <<v1>>)

Rec2(k1, v1, k2, v2) == Obj(<<k1, k2>>, <<v1, v2>>)

RouteEntries ==
  { <<"samples", Rec2("x", NumArr(<<1, 2>>), "y", NumArr(<<3, 4>>))>>,
    <<"samples", Rec2("x", Str("a"), "y", Num(1))>>,
    <<"samples", Rec2("x", Arr(<<>>), "y", NumArr(<<1>>))>>,
    <<"samples", Null>>,
    <<"phasor", Rec2("magnitude", Num(2), "angle", Num(0))>>,
    <<"phasor", Rec2("angle", Num(1), "magnitude", Str("5"))>>,
    <<"solution", Rec1("a", Num(1))>>,
    <<"R", Num(10)>>,
    <<"voltages", NumArr(<<1, 2>>)>>,
    <<"table", Arr(<<>>)>>,
    <<"table", Arr(<<Rec2("a", Num(1), "b", Num(2)), Rec2("a", Num(3), "b", Num(4))>>)>>,
    <<"roots", Arr(<<Null>>)>>,
    <<"roots", Arr(<<Rec2("real", Num(1), "imag", Num(2))>>)>>,
    <<"modulus", Num(2)>>,
    <<"argument", Num(0)>>,
    <<"coefficients", NumArr(<<1, 2>>)>>,
    <<"coefficients", Arr(<<Str("5"), Num(2)>>)>>,
    <<"x", NumArr(<<0, 1, 2>>)>>,
    <<"y", NumArr(<<1, 3, 5>>)>>,
    <<"y_fit", NumArr(<<1, 3, 5>>)>>,
    <<"iterations", NumArr(<<5, 2, 1>>)>>,
    <<"iterations", Arr(<<Null>>)>>,
    <<"t", NumArr(<<0, 1, 2>>)>>,
    <<"notes", Arr(<<Str("a")>>)>>,
    <<"M", Arr(<<NumArr(<<1, 2>>), NumArr(<<3, 4>>)>>)>> }

MsgEntries ==
  { <<"samples", Rec2("x", NumArr(<<1, 2>>), "y", NumArr(<<3, 4>>))>>,
    <<"phasor", Rec2("magnitude", Num(2), "angle", Num(0))>>,
    <<"R", Num(10)>>,
    <<"voltages", NumArr(<<1, 2>>)>>,
    <<"table", Arr(<<>>)>>,
    <<"table", Arr(<<Rec1("a", Num(1))>>)>>,
    <<"notes", Arr(<<Str("a")>>)>>,
    <<"info", Rec1("k", Str("v"))>>,
    <<"flag", Bool(TRUE)>> }

\* the sequences of at most K entries with no key twice
EntrySeqs(E, K) ==
  UNION {{s \in [1..n -> E] : \A i, j \in 1..n : i < j => s[i][1] # s[j][1]} : n \in 0..K}

PayloadOf(s) == Obj([i \in 1..Len(s) |-> s[i][1]], [i \in 1..Len(s) |-> s[i][2]])

RoutePayloads == {PayloadOf(s) : s \in EntrySeqs(RouteEntries, MaxKeys)}

MsgPayloads == {PayloadOf(s) : s \in EntrySeqs(MsgEntries, MaxMsgKeys)}

\* event.data of a well-formed message carrying data
Envelope(data) == Rec2("type", Str(EngineResult), "payload", Rec1("data", data))

\* messages without the envelope, the payload or the data
Malformed ==
  { Undef, Null, Str("ping"),
    Rec1("payload", Rec1("data", Rec1("R", Num(10)))),
    Rec2("type", Str("OTHER"), "payload", Rec1("data", Rec1("R", Num(10)))),
    Rec1("type", Str(EngineResult)),
    Rec2("type", Str(EngineResult), "payload", Null),
    Rec2("type", Str(EngineResult), "payload", Obj(<<>>, <<>>)),
    Envelope(Null), Envelope(Num(0)) }

Messages == Malformed \cup {Envelope(p) : p \in MsgPayloads}

----------------------------------------------------------------------------
(* The state: the content of #visual-root, the message being dispatched    *)
(* and the listener that is next to run on it. last is what the listener   *)
(* that ran last did and before is the content it found; first is what the *)
(* first declaration of routeVisual gives for the same data.               *)

VARIABLES visualRoot, event, pc, last, before, first

vars == <<visualRoot, event, pc, last, before, first>>

NoRun == [root |-> <<>>, thrown |-> FALSE, calls |-> <<>>, args |-> Undef, routed |-> FALSE]

\* the page has loaded: both listeners are registered, no message yet
Init ==
  /\ visualRoot = <<>>
  /\ event = Undef
  /\ pc = "loaded"
  /\ last = NoRun
  /\ before = <<>>
  /\ first = NoRun

\* window.postMessage(m): the event is queued for both listeners
Post(m) ==
  /\ pc \in {"loaded", "idle"}
  /\ event' = m
  /\ pc' = "first"
  /\ UNCHANGED <<visualRoot, last, before, first>>

ListenerFirst ==
  /\ pc = "first"
  /\ last' = listenerFirst(visualRoot, event)
  /\ visualRoot' = last'.root
  /\ before' = visualRoot
  /\ pc' = "second"
  /\ UNCHANGED <<event, first>>

ListenerSecond ==
  /\ pc = "second"
  /\ last' = listenerSecond(visualRoot, event)
  /\ visualRoot' = last'.root
  /\ before' = visualRoot
  /\ pc' = "idle"
  /\ UNCHANGED <<event, first>>

Next ==
  \/ \E m \in Messages : Post(m)
  \/ ListenerFirst
  \/ ListenerSecond

Spec == Init /\ [][Next]_vars

(* The router on one payload: the page receives one well-formed message;   *)
(* the first declaration of routeVisual is then applied to the same data.  *)

InitRoute ==
  /\ visualRoot = <<>>
  /\ event \in {Envelope(p) : p \in RoutePayloads}
  /\ pc = "first"
  /\ last = NoRun
  /\ before = <<>>
  /\ first = NoRun

Data == Prop(Prop(event, "payload"), "data")

CallFirst ==
  /\ pc = "idle"
  /\ first' = routeVisual1(visualRoot, Data)
  /\ pc' = "compared"
  /\ UNCHANGED <<visualRoot, event, last, before>>

NextRoute ==
  \/ ListenerFirst
  \/ ListenerSecond
  \/ CallFirst

SpecRoute == InitRoute /\ [][NextRoute]_vars

----------------------------------------------------------------------------
(* The claims. In a run of SpecRoute, last is what routeVisual (as the     *)
(* listeners call it) did with Data, and first what the first declaration  *)
(* does with it.                                                           *)

\* a listener has run on the event
Handled == pc \in {"second", "idle", "compared"}

Range(seq) == {seq[i] : i \in 1..Len(seq)}

IsRecord(v) == v.t = "object"

\* an array whose elements are all finite numbers
IsFiniteArray(v) == v.t = "array" /\ \A i \in 1..Len(v.a) : v.a[i].t = "number"

\* C1. Totality: for every payload that is a record, routeVisual ends with
\* exactly one renderer invoked or the 'No visual rule matched' message
\* shown, and never throws.
C1_Totality ==
  (Handled /\ IsRecord(Data)) => (~last.thrown /\ Len(last.calls) = 1)

\* data has a phasor record with a magnitude and an angle
HasPhasor(data) ==
  /\ IsRecord(Prop(data, "phasor"))
  /\ {"magnitude", "angle"} \subseteq Range(Prop(data, "phasor").k)
  /\ Prop(Prop(data, "phasor"), "magnitude") # Undef
  /\ Prop(Prop(data, "phasor"), "angle") # Undef

\* data has a samples record with both x and y
HasSamplesPair(data) ==
  /\ IsRecord(Prop(data, "samples"))
  /\ {"x", "y"} \subseteq Range(Prop(data, "samples").k)

\* data has a top-level number under a key other than samples and phasor
HasOtherNumber(data) ==
  \E i \in 1..Len(data.k) : data.k[i] \notin {"samples", "phasor"} /\ data.a[i].t = "number"

\* C2. Precedence: a payload with no samples pair, a phasor record with
\* magnitude and angle and one or more unrelated top-level numbers is
\* rendered as the phasor, never as the scalar map, in every order of its
\* keys; so it is by the first declaration of routeVisual.
C2_PhasorBeforeScalars ==
  (IsRecord(Data) /\ ~HasSamplesPair(Data) /\ HasPhasor(Data) /\ HasOtherNumber(Data)) =>
    /\ Handled => (last.calls = <<"renderPhasor">> /\ last.args = Prop(Data, "phasor"))
    /\ pc = "compared" => first.calls = <<"renderPhasor">>

\* a payload whose first key is a number and whose phasor comes after it
\* has been rendered as the phasor
C2_Witness ==
  /\ pc = "compared"
  /\ ~HasSamplesPair(Data) /\ HasPhasor(Data)
  /\ Len(Data.k) = 2 /\ Data.k[1] = "R" /\ Data.k[2] = "phasor"
  /\ last.calls = <<"renderPhasor">>

\* the phasor record holds a magnitude or an angle that is not a number
PhasorMistyped(data) ==
  /\ HasPhasor(data)
  /\ \/ ~IsNumber(Prop(Prop(data, "phasor"), "magnitude"))
     \/ ~IsNumber(Prop(Prop(data, "phasor"), "angle"))

\* the samples record holds an x or a y that is not an array of numbers
SamplesMistyped(data) ==
  /\ HasSamplesPair(data)
  /\ \/ ~IsFiniteArray(Prop(Prop(data, "samples"), "x"))
     \/ ~IsFiniteArray(Prop(Prop(data, "samples"), "y"))

\* C3. Type mismatch falls through: when phasor.magnitude or phasor.angle
\* is not a number the phasor renderer is not invoked, and when samples.x
\* or samples.y is not an array of numbers the line plot is not.
C3_TypeMismatchFallsThrough ==
  Handled =>
    /\ PhasorMistyped(Data) => last.calls # <<"renderPhasor">>
    /\ SamplesMistyped(Data) => last.calls # <<"renderLinePlot">>

\* C4. LineSeries completeness: the x and y handed to renderLinePlot are
\* arrays of equal, non-zero length whose elements are all finite numbers.
C4_LineSeriesComplete ==
  (Handled /\ last.calls = <<"renderLinePlot">>) =>
    /\ IsFiniteArray(At(last.args, 0))
    /\ IsFiniteArray(At(last.args, 1))
    /\ Length(At(last.args, 0)) = Length(At(last.args, 1))
    /\ Length(At(last.args, 0)) > 0

\* the payload's keys are exactly a numeric modulus and a numeric argument
IsPolar(data) ==
  /\ IsRecord(data)
  /\ Range(data.k) = {"modulus", "argument"}
  /\ Prop(data, "modulus").t = "number"
  /\ Prop(data, "argument").t = "number"

\* C5. Polar complex: a payload of a numeric modulus and a numeric argument
\* is rendered on the complex plane with real = modulus*cos(argument) and
\* imag = modulus*sin(argument); {modulus: 2, argument: 0} gives
\* {real: 2, imag: 0}.
C5_PolarComplex ==
  (Handled /\ IsPolar(Data)) =>
    /\ last.calls = <<"renderComplexPlane">>
    /\ (Prop(Data, "modulus") = Num(2) /\ Prop(Data, "argument") = Num(0)) =>
         last.args = Rec2("real", Num(2), "imag", Num(0))

\* the payload's keys are exactly x, y and coefficients, all arrays of numbers
IsCoefficientFit(data) ==
  /\ IsRecord(data)
  /\ Range(data.k) = {"x", "y", "coefficients"}
  /\ IsFiniteArray(Prop(data, "x"))
  /\ IsFiniteArray(Prop(data, "y"))
  /\ IsFiniteArray(Prop(data, "coefficients"))

\* the y of the trace named Fit in the plot the element holds
FittedSeries(root) == Prop(At(Prop(root[1], "traces"), 1), "y")

\* C6. Curve-fit synthesis: a payload of numeric arrays x, y and
\* coefficients (no y_fit) is rendered as the curve fit, its fitted series
\* the polynomial of the coefficients at each x;
\* {x:[0,1,2], y:[1,3,5], coefficients:[1,2]} gives the fitted series [1,3,5].
C6_CurveFitSynthesis ==
  (Handled /\ IsCoefficientFit(Data)) =>
    /\ last.calls = <<"renderCurveFit">>
    /\ (Prop(Data, "x") = NumArr(<<0, 1, 2>>) /\ Prop(Data, "coefficients") = NumArr(<<1, 2>>)) =>
         FittedSeries(last.root) = NumArr(<<1, 3, 5>>)

\* the payload's only key is iterations, a non-empty array of numbers
IsIterations(data) ==
  /\ IsRecord(data)
  /\ data.k = <<"iterations">>
  /\ IsFiniteArray(Prop(data, "iterations"))
  /\ Length(Prop(data, "iterations")) > 0

\* the points (1, v_1), ..., (n, v_n) of the numbers v
IndexedPoints(v) ==
  Arr([i \in 1..Length(v) |-> Rec2("iteration", Num(i), "value", v.a[i])])

\* C7. Convergence normalization: a payload whose only key is iterations,
\* a non-empty array of numbers v_1..v_n, is rendered as the convergence
\* trace of the points (1,v_1),...,(n,v_n), in input order.
C7_ConvergencePoints ==
  (Handled /\ IsIterations(Data)) =>
    /\ last.calls = <<"renderConvergence">>
    /\ last.args = IndexedPoints(Prop(Data, "iterations"))

\* the message has no data or a type other than ENGINE_RESULT
LacksEnvelope(m) == ~IsRecord(m) \/ Prop(m, "type") # Str(EngineResult)

\* the message has the envelope but no payload, or a payload without data
LacksPayload(m) ==
  /\ ~LacksEnvelope(m)
  /\ \/ Prop(m, "payload").t \in {"undefined", "null"}
     \/ Prop(Prop(m, "payload"), "data").t \in {"undefined", "null"}

\* C8, as stated. Malformed envelope: every message that lacks the wrapper,
\* the payload or payload.data is handled without routeVisual being invoked
\* and without throwing, and leaves the element showing 'No data received
\* from engine.'
C8_MalformedShowsNoData ==
  (Handled /\ (LacksEnvelope(event) \/ LacksPayload(event))) =>
    /\ ~last.routed
    /\ ~last.thrown
    /\ visualRoot = showMessage(NoDataMessage)

\* C8, amended. Such a message is handled without routeVisual being invoked
\* and without throwing; one with the ENGINE_RESULT type but no payload or
\* no payload.data leaves the element showing 'No data received from
\* engine.', and one with no data or another type leaves the element as it
\* was.
C8_MalformedHandled ==
  (Handled /\ (LacksEnvelope(event) \/ LacksPayload(event))) =>
    /\ ~last.routed
    /\ ~last.thrown
    /\ LacksPayload(event) => visualRoot = showMessage(NoDataMessage)
    /\ LacksEnvelope(event) => (visualRoot = before /\ last.calls = <<>>)

\* a message of another type has passed both listeners and the element
\* still holds the plot of an earlier message
C8_Witness ==
  /\ pc = "idle"
  /\ IsRecord(event) /\ Prop(event, "type") = Str("OTHER")
  /\ Len(visualRoot) = 1
  /\ Prop(visualRoot[1], "tag") = Str("plot")

\* what one listener leaves in an empty element for the message m
SinglePass(m) == listenerFirst(<<>>, m).root

\* C9. Replace, never accumulate: once both listeners have handled an
\* ENGINE_RESULT message, the element holds what one pass over that message
\* leaves in an empty element, once: nothing of an earlier message or of the
\* other listener's pass remains; for the text blocks, one section per
\* block of the message.
C9_ReplaceNeverAccumulate ==
  (pc = "idle" /\ ~LacksEnvelope(event)) =>
    /\ visualRoot = SinglePass(event)
    /\ last.calls = <<"renderTextBlocks">> =>
         Len(visualRoot) = Len(extractTextBlocks(Prop(Prop(event, "payload"), "data")))

\* the second listener found the sections the first one appended and left
\* one section for the one block of the message
C9_Witness ==
  /\ pc = "idle"
  /\ last.calls = <<"renderTextBlocks">>
  /\ before # <<>>
  /\ Len(visualRoot) = 1

\* an extractor's result is a match
Matched(r) == r # TypeError /\ Truthy(r)

\* none of the six extractors of the first declaration matches data
NoneMatches(data) ==
  /\ ~Matched(extractMatrix(data))
  /\ ~Matched(extractComplex(data))
  /\ ~Matched(extractPolynomial(data))
  /\ ~Matched(extractConvergence(data))
  /\ ~Matched(extractODE(data))
  /\ ~Matched(extractCurveFit(data))

\* C10. The two declarations of routeVisual give the same outcome (the same
\* renderer with the same data, or the same message) for every payload on
\* which none of extractMatrix, extractComplex, extractPolynomial,
\* extractConvergence, extractODE and extractCurveFit matches.
C10_DeclarationsAgree ==
  (pc = "compared" /\ NoneMatches(Data)) => first = last

====
